---- MODULE Spec2Model ----
(***************************************************************************)
(* Transaction-construction engine of btcx_tools                           *)
(* (src/src/lib/transaction_builder.rs, src/src/lib/types.rs).             *)
(*                                                                         *)
(* The state is one TransactionBuilder.  The by-value builder methods      *)
(* (new, with_config, with_utxos) make the initial state; every            *)
(* by-reference method (add_output, add_outputs, set_change_address,       *)
(* set_lock_time, set_version, build_unsigned, build_signed) is an action. *)
(* `result` holds what the last build call returned, `prev` what the call  *)
(* before it returned when both were build_unsigned on an untouched        *)
(* builder.  `picked` is the caller's record of the outputs spent by the   *)
(* transactions it built over its pool of UTXOs.                           *)
(***************************************************************************)
EXTENDS Integers, Sequences, FiniteSets, TLC

VARIABLES config, utxos, outputs, inputs, change_address, lock_time, version,
          result, prev, picked

vars == <<config, utxos, outputs, inputs, change_address, lock_time, version,
          result, prev, picked>>

(***************************************************************************)
(* Bounds of the model.                                                    *)
(***************************************************************************)
\* number of targets a builder accumulates
MaxOutputs == 2

\* number of transactions a caller builds over one pool
MaxBuilds == 2

(***************************************************************************)
(* Option / Result values.                                                 *)
(***************************************************************************)
None == [some |-> FALSE, val |-> <<>>]
Some(v) == [some |-> TRUE, val |-> v]

Ok(v) == [ok |-> TRUE, val |-> v, err |-> "-"]
Err(e) == [ok |-> FALSE, val |-> <<>>, err |-> e]

(***************************************************************************)
(* Values: addresses, scripts, UTXOs, targets, signing inputs.             *)
(***************************************************************************)
\* an address: its kind decides the length of its locking script
Address(kind, id) == [kind |-> kind, id |-> id, network |-> "Bitcoin"]

\* Address::script_pubkey(): the locking script of an address
script_pubkey(address) == [kind |-> address.kind, id |-> address.id]

\* serialized length of a locking script (P2PKH 25 bytes, P2WPKH 22 bytes)
ScriptLen(script) == IF script.kind = "p2pkh" THEN 25 ELSE 22

\* types.rs Utxo::new
Utxo(txid, vout, amount, script, spendable) ==
    [txid |-> txid, vout |-> vout, amount |-> amount,
     script_pubkey |-> script, spendable |-> spendable]

\* types.rs OutputTarget::new
OutputTarget_new(address, amount) ==
    [address |-> address, amount |-> amount, is_change |-> FALSE]

\* types.rs OutputTarget::new_change
OutputTarget_new_change(address, amount) ==
    [address |-> address, amount |-> amount, is_change |-> TRUE]

\* types.rs SigningInput::new
SigningInput_new(txid, vout, amount, script) ==
    [txid |-> txid, vout |-> vout, amount |-> amount, script_pubkey |-> script]

(***************************************************************************)
(* The inputs the caller draws from.                                       *)
(***************************************************************************)
\* the i-th spendable output of a pool with the given amounts: identity
\* (txid, vout), locking script of its own
PoolUtxo(amounts, i) ==
    Utxo((i + 1) \div 2, i % 2, amounts[i],
         script_pubkey(Address(IF i % 2 = 1 THEN "p2pkh" ELSE "p2wpkh", 10 + i)),
         TRUE)

RECURSIVE PoolList(_, _, _)
\* the pool outputs with index in S, from index i on, in pool order
PoolList(amounts, S, i) ==
    IF i > Len(amounts) THEN <<>>
    ELSE IF i \in S THEN <<PoolUtxo(amounts, i)>> \o PoolList(amounts, S, i + 1)
    ELSE PoolList(amounts, S, i + 1)

\* the lists with_utxos is called with: the sub-lists of a pool
UtxoListsOf(amounts) ==
    {PoolList(amounts, S, 1) : S \in SUBSET (1 .. Len(amounts))}

\* amounts of the spendable outputs of the caller's pool, in pool order
PoolAmounts == <<3000, 5000, 4000>>

\* a pool of four outputs, for the exact-match search
WidePoolAmounts == <<3000, 5000, 4000, 3000>>

AddrA == Address("p2pkh", 1)
AddrB == Address("p2wpkh", 2)
AddrC == Address("p2pkh", 3)

\* the targets add_output / add_outputs are called with
PayTargets == {OutputTarget_new(AddrA, 3000), OutputTarget_new(AddrB, 8000)}
FlaggedTargets == {OutputTarget_new_change(AddrC, 3000)}

\* a small payment, for builders whose targets grow between two builds
SmallTargets == {OutputTarget_new(AddrA, 1000)}

\* fee rates (sat/vB) as fractions n/d: 0, 0.5 and 1.0
FeeRates == {[n |-> 0, d |-> 1], [n |-> 1, d |-> 2], [n |-> 1, d |-> 1]}
MinChanges == {500, 1000}
Strategies == {"SmallestFirst", "LargestFirst", "Random", "BranchAndBound"}

(***************************************************************************)
(* Construction.                                                           *)
(***************************************************************************)
\* TxBuilderConfig::default
DefaultConfig ==
    [network |-> "Bitcoin", fee_rate |-> [n |-> 1, d |-> 1], dust_limit |-> 546,
     rbf |-> FALSE, rbf_sequence |-> "0xFFFFFFFD", min_change |-> 1000,
     coin_selection |-> "BranchAndBound",
     shuffle_inputs |-> TRUE, shuffle_outputs |-> TRUE]

\* the configurations with_config is called with
Configs ==
    {[DefaultConfig EXCEPT !.coin_selection = s, !.fee_rate = f, !.min_change = m,
                           !.shuffle_inputs = FALSE, !.shuffle_outputs = FALSE] :
        s \in Strategies, f \in FeeRates, m \in MinChanges}

\* TransactionBuilder::new
new(network) ==
    [config |-> [DefaultConfig EXCEPT !.network = network],
     utxos |-> <<>>, outputs |-> <<>>, inputs |-> <<>>,
     change_address |-> None, lock_time |-> None, version |-> 2]

\* TransactionBuilder::with_config
with_config(self, c) == [self EXCEPT !.config = c]

\* TransactionBuilder::with_utxos
with_utxos(self, u) == [self EXCEPT !.utxos = u]

\* the builder as one value
Self ==
    [config |-> config, utxos |-> utxos, outputs |-> outputs, inputs |-> inputs,
     change_address |-> change_address, lock_time |-> lock_time,
     version |-> version]

(***************************************************************************)
(* Amount arithmetic and sorting.                                          *)
(***************************************************************************)
RECURSIVE SumFrom(_, _)
\* sum of the amounts of s[i..]
SumFrom(s, i) == IF i > Len(s) THEN 0 ELSE s[i].amount + SumFrom(s, i + 1)

\* iter().map(|x| x.amount).sum::<Amount>()
SumAmounts(s) == SumFrom(s, 1)

\* iter().filter(|o| !o.is_change): the targets not flagged as change
NonChange(s) == SelectSeq(s, LAMBDA o : ~o.is_change)

\* the sort key of sort_by_key: amount, or Reverse(amount)
SortKey(u, reverse) == IF reverse THEN 0 - u.amount ELSE u.amount

\* one insertion of the stable sort: x goes after every element whose key
\* is not greater than its own
InsertByKey(t, x, reverse) ==
    LET k == Cardinality({i \in 1 .. Len(t) :
                             SortKey(t[i], reverse) <= SortKey(x, reverse)})
    IN SubSeq(t, 1, k) \o <<x>> \o SubSeq(t, k + 1, Len(t))

RECURSIVE SortPrefix(_, _, _)
\* the first n elements of s, sorted
SortPrefix(s, n, reverse) ==
    IF n = 0 THEN <<>>
    ELSE InsertByKey(SortPrefix(s, n - 1, reverse), s[n], reverse)

\* the sort as if the Reverse key were ignored
sort_by_key_ascending(s, reverse) == SortPrefix(s, Len(s), FALSE)

\* Vec::sort_by_key (stable): ascending by amount, or descending with Reverse
sort_by_key(s, reverse) == SortPrefix(s, Len(s), reverse)

\* the orders slice::shuffle can leave a vector in: every permutation
Shuffles(s) ==
    {[i \in 1 .. Len(s) |-> s[p[i]]] :
        p \in {q \in [1 .. Len(s) -> 1 .. Len(s)] :
                  \A i, j \in 1 .. Len(s) : q[i] = q[j] => i = j}}

\* `fee_rate as u64`: the fractional rate truncated to an integer
RateAsU64(rate) == rate.n \div rate.d

\* the fee as if the product were truncated instead of rounded up
CeilMulTruncated(x, rate) == (x * rate.n) \div rate.d

\* (x as f32 * fee_rate).ceil() as u64
CeilMul(x, rate) == (x * rate.n + rate.d - 1) \div rate.d

(***************************************************************************)
(* Coin selection.                                                         *)
(***************************************************************************)
\* the minimum amount select_utxos_greedy asks for
MinAmount(self) ==
    LET total_output == SumAmounts(self.outputs)
        base_tx_size == 10
        input_size == 150
        output_size == 34
    IN total_output
       + (base_tx_size + output_size * Len(self.outputs))
         * RateAsU64(self.config.fee_rate)

RECURSIVE GreedyLoop(_, _, _, _, _)
\* the for loop of select_utxos_greedy from position i on: (selected, total)
GreedyLoop(sorted_utxos, i, selected, total_selected, min_amount) ==
    IF i > Len(sorted_utxos) \/ total_selected >= min_amount
    THEN [selected |-> selected, total_selected |-> total_selected]
    ELSE GreedyLoop(sorted_utxos, i + 1, Append(selected, sorted_utxos[i]),
                    total_selected + sorted_utxos[i].amount, min_amount)

\* the signing inputs derived from a selection
SigningInputsOf(selected) ==
    [i \in 1 .. Len(selected) |->
        SigningInput_new(selected[i].txid, selected[i].vout,
                         selected[i].amount, selected[i].script_pubkey)]

\* select_utxos_greedy as if a shortfall were reported as a custom error
select_utxos_greedy_custom_error(self, sorted_utxos) ==
    LET min_amount == MinAmount(self)
        loop == GreedyLoop(sorted_utxos, 1, <<>>, 0, min_amount)
    IN IF loop.total_selected < min_amount
       THEN [ret |-> Err("Not enough funds"), inputs |-> self.inputs]
       ELSE [ret |-> Ok(loop.selected),
             inputs |-> SigningInputsOf(loop.selected)]

\* select_utxos_greedy as if the outputs recorded in self.inputs by an
\* earlier selection were no longer candidates
select_utxos_greedy_reserving(self, sorted_utxos) ==
    LET min_amount == MinAmount(self)
        free == SelectSeq(sorted_utxos,
                    LAMBDA u : \A k \in 1 .. Len(self.inputs) :
                        <<self.inputs[k].txid, self.inputs[k].vout>>
                            # <<u.txid, u.vout>>)
        loop == GreedyLoop(free, 1, <<>>, 0, min_amount)
    IN IF loop.total_selected < min_amount
       THEN [ret |-> Err("InsufficientFunds"), inputs |-> self.inputs]
       ELSE [ret |-> Ok(loop.selected),
             inputs |-> SigningInputsOf(loop.selected)]

\* the end of select_utxos_greedy, `loop` being what its for loop left: the
\* funds check, then the signing inputs stored in self.inputs
GreedyEnd(self, loop, min_amount) ==
    IF loop.total_selected < min_amount
    THEN [ret |-> Err("InsufficientFunds"), inputs |-> self.inputs]
    ELSE [ret |-> Ok(loop.selected), inputs |-> SigningInputsOf(loop.selected)]

\* select_utxos_greedy: the value returned and self.inputs after the call
select_utxos_greedy(self, sorted_utxos) ==
    GreedyEnd(self, GreedyLoop(sorted_utxos, 1, <<>>, 0, MinAmount(self)),
              MinAmount(self))

\* select_utxos_smallest_first
select_utxos_smallest_first(self) ==
    select_utxos_greedy(self, sort_by_key(self.utxos, FALSE))

\* select_utxos_largest_first
select_utxos_largest_first(self) ==
    select_utxos_greedy(self, sort_by_key(self.utxos, TRUE))

\* select_utxos_random, `shuffled` being what utxos.shuffle(&mut rng) left
select_utxos_random(self, shuffled) == select_utxos_greedy(self, shuffled)

RECURSIVE ExactInner(_, _, _, _, _)
\* the inner loop of find_exact_match over utxos[j..]
ExactInner(us, j, sum, selection, target) ==
    IF j > Len(us) THEN None
    ELSE IF sum + us[j].amount <= target
         THEN IF sum + us[j].amount = target
              THEN Some(Append(selection, us[j]))
              ELSE ExactInner(us, j + 1, sum + us[j].amount,
                              Append(selection, us[j]), target)
         ELSE ExactInner(us, j + 1, sum, selection, target)

RECURSIVE ExactOuter(_, _, _)
\* the outer loop of find_exact_match over the start index i
ExactOuter(us, i, target) ==
    IF i > Len(us) THEN None
    ELSE LET r == ExactInner(us, i, 0, <<>>, target)
         IN IF r.some THEN r ELSE ExactOuter(us, i + 1, target)

\* find_exact_match
find_exact_match(us, target) == ExactOuter(us, 1, target)

\* the target of the exact-match search: the non-change amounts
ExactTarget(self) == SumAmounts(NonChange(self.outputs))

\* select_utxos_branch_and_bound as if it fell back to smallest-first
select_utxos_branch_and_bound_smallest(self) ==
    LET target == ExactTarget(self)
        sorted == sort_by_key(self.utxos, TRUE)
        found == find_exact_match(sorted, target)
    IN IF found.some
       THEN [ret |-> Ok(found.val), inputs |-> self.inputs]
       ELSE select_utxos_smallest_first(self)

\* the end of select_utxos_branch_and_bound, `found` being what
\* find_exact_match returned: the match as it is, or the fallback
ExactOrFallback(self, found) ==
    IF found.some
    THEN [ret |-> Ok(found.val), inputs |-> self.inputs]
    ELSE select_utxos_largest_first(self)

\* select_utxos_branch_and_bound
select_utxos_branch_and_bound(self) ==
    ExactOrFallback(self, find_exact_match(sort_by_key(self.utxos, TRUE),
                                           ExactTarget(self)))

\* select_utxos: dispatch on the configured strategy
select_utxos(self, shuffled) ==
    CASE self.config.coin_selection = "SmallestFirst" ->
            select_utxos_smallest_first(self)
      [] self.config.coin_selection = "LargestFirst" ->
            select_utxos_largest_first(self)
      [] self.config.coin_selection = "Random" ->
            select_utxos_random(self, shuffled)
      [] self.config.coin_selection = "BranchAndBound" ->
            select_utxos_branch_and_bound(self)

(***************************************************************************)
(* Transactions, their weight, and the two build calls.                    *)
(***************************************************************************)
\* create_unsigned_tx as if every input spent output 0 of its transaction
create_unsigned_tx_vout0(self, selected, outs) ==
    [version |-> self.version,
     lock_time |-> 0,
     input |-> [i \in 1 .. Len(selected) |->
                  [previous_output |-> [txid |-> selected[i].txid, vout |-> 0],
                   script_sig |-> <<>>,
                   sequence |-> IF self.config.rbf
                                THEN self.config.rbf_sequence
                                ELSE "0xFFFFFFFF",
                   witness |-> <<>>]],
     output |-> [i \in 1 .. Len(outs) |->
                   [value |-> outs[i].amount,
                    script_pubkey |-> script_pubkey(outs[i].address)]]]

\* create_unsigned_tx as if the rbf flag were ignored
create_unsigned_tx_final(self, selected, outs) ==
    [version |-> self.version,
     lock_time |-> 0,
     input |-> [i \in 1 .. Len(selected) |->
                  [previous_output |-> [txid |-> selected[i].txid,
                                        vout |-> selected[i].vout],
                   script_sig |-> <<>>,
                   sequence |-> "0xFFFFFFFF",
                   witness |-> <<>>]],
     output |-> [i \in 1 .. Len(outs) |->
                   [value |-> outs[i].amount,
                    script_pubkey |-> script_pubkey(outs[i].address)]]]

\* create_unsigned_tx: `outs` is outputs.unwrap_or(&self.outputs)
create_unsigned_tx(self, selected, outs) ==
    [version |-> self.version,
     lock_time |-> 0,
     input |-> [i \in 1 .. Len(selected) |->
                  [previous_output |-> [txid |-> selected[i].txid,
                                        vout |-> selected[i].vout],
                   script_sig |-> <<>>,
                   sequence |-> IF self.config.rbf
                                THEN self.config.rbf_sequence
                                ELSE "0xFFFFFFFF",
                   witness |-> <<>>]],
     output |-> [i \in 1 .. Len(outs) |->
                   [value |-> outs[i].amount,
                    script_pubkey |-> script_pubkey(outs[i].address)]]]

RECURSIVE SumLens(_, _)
\* serialized length of the elements w[i..] of a witness, length prefixes included
SumLens(w, i) == IF i > Len(w) THEN 0 ELSE 1 + w[i].len + SumLens(w, i + 1)

RECURSIVE OutputBytes(_, _)
\* serialized length of the outputs outs[i..]: value, script length, script
OutputBytes(outs, i) ==
    IF i > Len(outs) THEN 0
    ELSE 8 + 1 + ScriptLen(outs[i].script_pubkey) + OutputBytes(outs, i + 1)

RECURSIVE WitnessBytes(_, _)
\* serialized length of the witnesses of the inputs ins[i..]
WitnessBytes(ins, i) ==
    IF i > Len(ins) THEN 0
    ELSE 1 + SumLens(ins[i].witness, 1) + WitnessBytes(ins, i + 1)

\* length of the serialization without witness data
BaseSize(tx) ==
    4 + 1 + (32 + 4 + 1 + 4) * Len(tx.input) + 1 + OutputBytes(tx.output, 1) + 4

\* Transaction::weight().to_wu()
Weight(tx) ==
    IF \A i \in 1 .. Len(tx.input) : tx.input[i].witness = <<>>
    THEN 4 * BaseSize(tx)
    ELSE 4 * BaseSize(tx) + 2 + WitnessBytes(tx.input, 1)

\* (weight + 3) / 4
VSize(tx) == (Weight(tx) + 3) \div 4

\* the funds check as if the fee had been left out of it
ShortfallNoFee(total_input, total_output, fee) == total_input < total_output

\* the funds check of build_unsigned: total_input < total_output + fee
Shortfall(total_input, total_output, fee) == total_input < total_output + fee

\* what a build_unsigned that stopped before the fee computation reports
Stopped(ret, sel) ==
    [ret |-> ret, inputs |-> sel.inputs,
     selected |-> IF sel.ret.ok THEN Some(sel.ret.val) ELSE None,
     total_input |-> 0, total_output |-> 0, fee |-> 0, change_amount |-> None]

\* the locals of a build_unsigned that reached the fee computation
Locals(sel, total_input, total_output, fee) ==
    [inputs |-> sel.inputs, selected |-> Some(sel.ret.val),
     total_input |-> total_input, total_output |-> total_output, fee |-> fee]

\* build_unsigned: the lock-time and version overrides
Overrides(self, tx) ==
    [tx EXCEPT !.lock_time = IF self.lock_time.some THEN self.lock_time.val ELSE @,
               !.version = self.version]

\* the change decision as if change owed without a change address were
\* left to the fee
ChangeStepSilent(self, sel, tx, change_amount, locals) ==
    IF change_amount >= self.config.min_change /\ self.change_address.some
    THEN [ret |-> Ok(Overrides(self,
                  create_unsigned_tx(self, sel.ret.val,
                      Append(self.outputs,
                             OutputTarget_new_change(self.change_address.val,
                                                     change_amount))))),
          change_amount |-> Some(change_amount)] @@ locals
    ELSE [ret |-> Ok(Overrides(self, tx)), change_amount |-> Some(change_amount)]
         @@ locals

\* build_unsigned from the change decision on
ChangeStep(self, sel, tx, change_amount, locals) ==
    IF change_amount >= self.config.min_change
    THEN IF ~self.change_address.some
         THEN [ret |-> Err("Change address not specified"),
               change_amount |-> Some(change_amount)] @@ locals
         ELSE [ret |-> Ok(Overrides(self,
                       create_unsigned_tx(self, sel.ret.val,
                           Append(self.outputs,
                                  OutputTarget_new_change(self.change_address.val,
                                                          change_amount))))),
               change_amount |-> Some(change_amount)] @@ locals
    ELSE [ret |-> Ok(Overrides(self, tx)), change_amount |-> Some(change_amount)]
         @@ locals

\* build_unsigned from the funds check on
FundsStep(self, sel, total_input, total_output, tx, fee) ==
    IF Shortfall(total_input, total_output, fee)
    THEN [ret |-> Err("InsufficientFunds"), change_amount |-> None]
         @@ Locals(sel, total_input, total_output, fee)
    ELSE ChangeStep(self, sel, tx, total_input - total_output - fee,
                    Locals(sel, total_input, total_output, fee))

\* build_unsigned from the fee computation on: vsize of the draft, fee
FeeStep(self, sel, total_input, total_output, tx) ==
    FundsStep(self, sel, total_input, total_output, tx,
              CeilMul(VSize(tx), self.config.fee_rate))

\* build_unsigned after select_utxos()?: the totals and the draft
SelectedStep(self, sel) ==
    IF ~sel.ret.ok THEN Stopped(sel.ret, sel)
    ELSE FeeStep(self, sel, SumAmounts(sel.ret.val),
                 SumAmounts(NonChange(self.outputs)),
                 create_unsigned_tx(self, sel.ret.val, self.outputs))

\* build_unsigned as if the check for targets were missing
build_unsigned_unchecked(self, shuffled) ==
    SelectedStep(self, select_utxos(self, shuffled))

\* build_unsigned: the value returned (ret), self.inputs after the call, and
\* the locals of the call
build_unsigned(self, shuffled) ==
    IF self.outputs = <<>>
    THEN Stopped(Err("No outputs specified"),
                 [ret |-> Err("-"), inputs |-> self.inputs])
    ELSE SelectedStep(self, select_utxos(self, shuffled))

\* a signature as the signing callback returns it: 72 bytes
Signature == [kind |-> "sig", len |-> 72]

\* Script::into_bytes(): the bytes of a script as one witness element
into_bytes(script) == [kind |-> "script", script |-> script, len |-> ScriptLen(script)]

\* the signing callbacks build_signed is called with
Signers == {"sign", "empty", "refuse_p2wpkh"}

\* the callback F: (script, amount, sighash) -> Result<(signatures, script)>
signer_call(signer, script, amount, sighash) ==
    CASE signer = "sign" -> Ok([signatures |-> <<Signature>>, script |-> script])
      [] signer = "empty" -> Ok([signatures |-> <<>>, script |-> script])
      [] signer = "refuse_p2wpkh" ->
            IF script.kind = "p2wpkh" THEN Err("SigningFailed")
            ELSE Ok([signatures |-> <<Signature>>, script |-> script])

\* Transaction::signature_hash(i, script, amount, All): the digest, by its inputs
signature_hash(tx, i, script, amount) ==
    [index |-> i, script |-> script, amount |-> amount, sighash_type |-> "All"]

RECURSIVE SignLoopSkipping(_, _, _, _, _)
\* the signing loop as if an input the callback refused were skipped and the
\* loop went on
SignLoopSkipping(self_inputs, tx, i, signer, calls) ==
    IF i > Len(tx.input) THEN [end |-> "done", tx |-> tx, calls |-> calls]
    ELSE IF i > Len(self_inputs)
    THEN [end |-> "panic", tx |-> tx, calls |-> calls]
    ELSE
    LET prevout_script == self_inputs[i].script_pubkey
        amount == self_inputs[i].amount
        sighash == signature_hash(tx, i, prevout_script, amount)
        r == signer_call(signer, prevout_script, amount, sighash)
        called == Append(calls, [script |-> prevout_script, amount |-> amount,
                                 sighash |-> sighash])
    IN IF ~r.ok THEN SignLoopSkipping(self_inputs, tx, i + 1, signer, called)
       ELSE SignLoopSkipping(self_inputs,
                     [tx EXCEPT !.input[i].witness =
                         r.val.signatures \o <<into_bytes(r.val.script)>>],
                     i + 1, signer, called)

RECURSIVE SignLoopScriptFirst(_, _, _, _, _)
\* the signing loop as if the returned script were pushed before the
\* signatures
SignLoopScriptFirst(self_inputs, tx, i, signer, calls) ==
    IF i > Len(tx.input) THEN [end |-> "done", tx |-> tx, calls |-> calls]
    ELSE IF i > Len(self_inputs)
    THEN [end |-> "panic", tx |-> tx, calls |-> calls]
    ELSE
    LET prevout_script == self_inputs[i].script_pubkey
        amount == self_inputs[i].amount
        sighash == signature_hash(tx, i, prevout_script, amount)
        r == signer_call(signer, prevout_script, amount, sighash)
        called == Append(calls, [script |-> prevout_script, amount |-> amount,
                                 sighash |-> sighash])
    IN IF ~r.ok THEN [end |-> r.err, tx |-> tx, calls |-> called]
       ELSE SignLoopScriptFirst(self_inputs,
                     [tx EXCEPT !.input[i].witness =
                         <<into_bytes(r.val.script)>> \o r.val.signatures],
                     i + 1, signer, called)

RECURSIVE SignLoop(_, _, _, _, _)
\* the for loop of build_signed from input i on: how it ended, the
\* transaction so far and the calls made to the signing callback
SignLoop(self_inputs, tx, i, signer, calls) ==
    IF i > Len(tx.input) THEN [end |-> "done", tx |-> tx, calls |-> calls]
    ELSE IF i > Len(self_inputs)
    THEN [end |-> "panic", tx |-> tx, calls |-> calls]
    ELSE
    LET prevout_script == self_inputs[i].script_pubkey
        amount == self_inputs[i].amount
        sighash == signature_hash(tx, i, prevout_script, amount)
        r == signer_call(signer, prevout_script, amount, sighash)
        called == Append(calls, [script |-> prevout_script, amount |-> amount,
                                 sighash |-> sighash])
    IN IF ~r.ok THEN [end |-> r.err, tx |-> tx, calls |-> called]
       ELSE SignLoop(self_inputs,
                     [tx EXCEPT !.input[i].witness =
                         r.val.signatures \o <<into_bytes(r.val.script)>>],
                     i + 1, signer, called)

\* calculate_fee: the inputs held by the builder minus the outputs of tx
calculate_fee(self_inputs, tx) ==
    LET input_amount == SumAmounts(self_inputs)
        output_amount == SumFrom([i \in 1 .. Len(tx.output) |->
                                    [amount |-> tx.output[i].value]], 1)
    IN IF input_amount < output_amount
       THEN Err("panic: Amount subtraction error")
       ELSE Ok(input_amount - output_amount)

\* Transaction::txid(): the transaction without its witness data
txid_of(tx) ==
    [tx EXCEPT !.input = [i \in 1 .. Len(tx.input) |->
                            [tx.input[i] EXCEPT !.witness = <<>>]]]

\* Transaction::size(): the serialized length
tx_size(tx) ==
    IF \A i \in 1 .. Len(tx.input) : tx.input[i].witness = <<>>
    THEN BaseSize(tx)
    ELSE BaseSize(tx) + 2 + WitnessBytes(tx.input, 1)

\* types.rs SignedTransaction::new
SignedTransaction_new(tx, fee, is_complete) ==
    [tx |-> tx, txid |-> txid_of(tx), size |-> tx_size(tx), vsize |-> VSize(tx),
     weight |-> Weight(tx), fee |-> fee,
     fee_rate |-> [n |-> fee, d |-> VSize(tx)], is_complete |-> is_complete]

\* the end of build_signed: `loop` is what the signing loop left, `fee` what
\* calculate_fee returned
SignedResult(u, loop, fee) ==
    [ret |-> IF loop.end = "panic" THEN Err("panic: index out of bounds")
             ELSE IF loop.end # "done" THEN Err(loop.end)
             ELSE IF ~fee.ok THEN fee
             ELSE Ok(SignedTransaction_new(loop.tx, fee.val, TRUE)),
     calls |-> loop.calls] @@ u

\* build_signed after build_unsigned()?, `u` being what build_unsigned left
SignStep(u, signer) ==
    IF ~u.ret.ok THEN [calls |-> <<>>] @@ u
    ELSE SignedResult(u, SignLoop(u.inputs, u.ret.val, 1, signer, <<>>),
                      calculate_fee(u.inputs, u.ret.val))

\* build_signed: the value returned, self.inputs after the call, the locals
\* of the build_unsigned it runs and the calls made to the signing callback
build_signed(self, shuffled, signer) ==
    SignStep(build_unsigned(self, shuffled), signer)

(***************************************************************************)
(* The state machine.                                                      *)
(***************************************************************************)
NoResult ==
    [op |-> "none", ret |-> Err("-"), inputs |-> <<>>, selected |-> None,
     total_input |-> 0, total_output |-> 0, fee |-> 0, change_amount |-> None,
     calls |-> <<>>, signer |-> "-"]


\* the state after new(network).with_config(c).with_utxos(u)
InitWith(cfgs, lists) ==
    \E c \in cfgs, u \in lists :
        LET b == with_utxos(with_config(new("Bitcoin"), c), u) IN
        /\ config = b.config
        /\ utxos = b.utxos
        /\ outputs = b.outputs
        /\ inputs = b.inputs
        /\ change_address = b.change_address
        /\ lock_time = b.lock_time
        /\ version = b.version
        /\ result = NoResult
        /\ prev = None
        /\ picked = <<>>

\* TransactionBuilder::add_output
AddOutput ==
    \E t \in PayTargets :
        /\ Len(outputs) < MaxOutputs
        /\ outputs' = Append(outputs, OutputTarget_new(t.address, t.amount))
        /\ result' = NoResult
        /\ prev' = None
        /\ UNCHANGED <<picked, config, utxos, inputs, change_address,
                       lock_time, version>>

\* TransactionBuilder::add_output, called with a small payment
AddSmallOutput ==
    \E t \in SmallTargets :
        /\ Len(outputs) < MaxOutputs
        /\ outputs' = Append(outputs, OutputTarget_new(t.address, t.amount))
        /\ result' = NoResult
        /\ prev' = None
        /\ UNCHANGED <<picked, config, utxos, inputs, change_address,
                       lock_time, version>>

\* an address of the test network
AddrT == [Address("p2pkh", 4) EXCEPT !.network = "Testnet"]

\* TransactionBuilder::add_output, called with an address of the test network
AddForeignOutput ==
    /\ Len(outputs) < MaxOutputs
    /\ outputs' = Append(outputs, OutputTarget_new(AddrT, 3000))
    /\ result' = NoResult
    /\ prev' = None
    /\ UNCHANGED <<picked, config, utxos, inputs, change_address,
                   lock_time, version>>

\* TransactionBuilder::set_change_address, called with an address of the
\* test network
SetForeignChangeAddress ==
    /\ change_address' = Some(AddrT)
    /\ result' = NoResult
    /\ prev' = None
    /\ UNCHANGED <<picked, config, utxos, outputs, inputs,
                   lock_time, version>>

\* the vectors add_outputs is called with
TargetVecs ==
    {<<t>> : t \in PayTargets \cup FlaggedTargets}
    \cup {<<s, t>> : s \in PayTargets, t \in FlaggedTargets}

\* TransactionBuilder::add_outputs
AddOutputs ==
    \E v \in TargetVecs :
        /\ Len(outputs) + Len(v) <= MaxOutputs
        /\ outputs' = outputs \o v
        /\ result' = NoResult
        /\ prev' = None
        /\ UNCHANGED <<picked, config, utxos, inputs, change_address,
                       lock_time, version>>

\* TransactionBuilder::set_change_address
SetChangeAddress ==
    /\ change_address' = Some(AddrC)
    /\ result' = NoResult
    /\ prev' = None
    /\ UNCHANGED <<picked, config, utxos, outputs, inputs,
                   lock_time, version>>

\* TransactionBuilder::set_lock_time
SetLockTime ==
    /\ lock_time' = Some(500)
    /\ result' = NoResult
    /\ prev' = None
    /\ UNCHANGED <<picked, config, utxos, outputs, inputs,
                   change_address, version>>

\* TransactionBuilder::set_version
SetVersion ==
    /\ version' = 1
    /\ result' = NoResult
    /\ prev' = None
    /\ UNCHANGED <<picked, config, utxos, outputs, inputs,
                   change_address, lock_time>>

\* the orders the candidates can be in when the greedy accumulation starts:
\* any permutation under Random, of no account otherwise
ShuffleChoices ==
    IF config.coin_selection = "Random" THEN Shuffles(utxos) ELSE {utxos}

\* TransactionBuilder::build_unsigned
BuildUnsigned ==
    \E shuffled \in ShuffleChoices :
        LET r == build_unsigned(Self, shuffled) IN
        /\ inputs' = r.inputs
        /\ result' = [op |-> "build_unsigned", calls |-> <<>>, signer |-> "-"] @@ r
        /\ prev' = IF result.op = "build_unsigned" THEN Some(result.ret) ELSE None
        /\ UNCHANGED <<picked, config, utxos, outputs, change_address,
                       lock_time, version>>

\* TransactionBuilder::build_signed
BuildSigned ==
    \E shuffled \in ShuffleChoices, signer \in Signers :
        LET r == build_signed(Self, shuffled, signer) IN
        /\ inputs' = r.inputs
        /\ result' = [op |-> "build_signed", signer |-> signer] @@ r
        /\ prev' = None
        /\ UNCHANGED <<picked, config, utxos, outputs, change_address,
                       lock_time, version>>

(***************************************************************************)
(* A caller that builds several transactions over one pool of UTXOs.       *)
(***************************************************************************)
\* the outputs a transaction spends, as the caller reads them off its inputs
Outpoints(tx) ==
    {<<tx.input[i].previous_output.txid, tx.input[i].previous_output.vout>> :
        i \in 1 .. Len(tx.input)}

\* the pool without the outputs a transaction spends
Remaining(pool, tx) ==
    SelectSeq(pool, LAMBDA u : <<u.txid, u.vout>> \notin Outpoints(tx))

\* the caller's record after a build that returned r
Recorded(r, removed) ==
    IF r.ret.ok
    THEN Append(picked, [outpoints |-> Outpoints(r.ret.val), removed |-> removed])
    ELSE picked

\* a build over the pool, `r` being what build_unsigned left; the caller
\* records what the transaction spends and, when `removing`, hands the
\* builder the rest of the pool (with_utxos) for the builds to come
PoolStep(r, removing) ==
    /\ Len(picked) < MaxBuilds
    /\ inputs' = r.inputs
    /\ result' = [op |-> "build_unsigned", calls |-> <<>>, signer |-> "-"] @@ r
    /\ prev' = None
    /\ picked' = Recorded(r, removing)
    /\ utxos' = IF removing /\ r.ret.ok
                THEN with_utxos(Self, Remaining(utxos, r.ret.val)).utxos
                ELSE utxos
    /\ UNCHANGED <<config, outputs, change_address, lock_time, version>>

\* build_unsigned over the pool, nothing removed afterwards
PoolBuild ==
    \E shuffled \in ShuffleChoices : PoolStep(build_unsigned(Self, shuffled), FALSE)

\* build_unsigned over the pool, the spent outputs removed before the next build
PoolBuildRemoving ==
    \E shuffled \in ShuffleChoices : PoolStep(build_unsigned(Self, shuffled), TRUE)

(***************************************************************************)
(* Address parsing (lib.rs) and the create_tx script.                      *)
(***************************************************************************)
Networks == {"Bitcoin", "Testnet"}

\* textual addresses: the text of an address, or text that is no address
TextOf(address) == [valid |-> TRUE, address |-> address]
AddressTexts ==
    {TextOf(AddrA), TextOf(AddrT), [valid |-> FALSE, address |-> <<>>]}

\* str::parse::<Address>() / Address::from_str
from_str(text) == IF text.valid THEN Ok(text.address) ELSE Err("parse error")

\* the end of parse_address, `parsed` being what str::parse returned
NetworkChecked(parsed, network) ==
    IF ~parsed.ok THEN Err("InvalidAddress")
    ELSE IF parsed.val.network = network THEN parsed
    ELSE Err("InvalidAddress: Address network mismatch")

\* utils::parse_address
parse_address(text, network) == NetworkChecked(from_str(text), network)

\* transaction ids as text: 1 is an id, 0 is text that is no id
TxidTexts == {0, 1}

\* the requests create_transaction is called with
Requests ==
    {[inputs |-> <<[txid |-> t, vout |-> 0]>>, outputs |-> o] :
        t \in TxidTexts,
        o \in {<<[address |-> a, amount |-> 1000]>> : a \in AddressTexts}
              \cup {<<[address |-> a, amount |-> 1000],
                      [address |-> b, amount |-> 2000]>> :
                        a \in AddressTexts, b \in AddressTexts}}

RECURSIVE RequestOutputs(_, _, _, _)
\* the loop of create_transaction over request.outputs from position i on
RequestOutputs(request, network, i, done) ==
    IF i > Len(request.outputs) THEN Ok(done)
    ELSE IF ~from_str(request.outputs[i].address).ok THEN Err("Invalid address")
    ELSE IF from_str(request.outputs[i].address).val.network # network
    THEN Err("Address network mismatch")
    ELSE RequestOutputs(request, network, i + 1,
             Append(done,
                 [value |-> request.outputs[i].amount,
                  script_pubkey |->
                      script_pubkey(from_str(request.outputs[i].address).val)]))

\* the end of create_transaction, `outs` being what the output loop left
RequestTx(request, outs) ==
    IF ~outs.ok THEN outs
    ELSE Ok([encoding |-> "hex",
             tx |-> [version |-> 1, lock_time |-> 0,
                     input |-> [i \in 1 .. Len(request.inputs) |->
                                  [previous_output |->
                                       [txid |-> request.inputs[i].txid,
                                        vout |-> request.inputs[i].vout],
                                   script_sig |-> <<>>, sequence |-> "0xFFFFFFFF",
                                   witness |-> <<>>]],
                     output |-> outs.val]])

\* create_tx: create_transaction
create_transaction(request, network) ==
    IF \E i \in 1 .. Len(request.inputs) : request.inputs[i].txid = 0
    THEN Err("Invalid txid")
    ELSE RequestTx(request, RequestOutputs(request, network, 1, <<>>))

\* a call of utils::parse_address
ParseAddress ==
    \E text \in AddressTexts, network \in Networks :
        /\ result' = [op |-> "parse_address", ret |-> parse_address(text, network),
                      text |-> text, network |-> network] @@ NoResult
        /\ prev' = None
        /\ UNCHANGED <<picked, config, utxos, outputs, inputs,
                       change_address, lock_time, version>>

\* a call of create_transaction of the create_tx script
CreateTransaction ==
    \E request \in Requests, network \in Networks :
        /\ result' = [op |-> "create_transaction",
                      ret |-> create_transaction(request, network),
                      request |-> request, network |-> network] @@ NoResult
        /\ prev' = None
        /\ UNCHANGED <<picked, config, utxos, outputs, inputs,
                       change_address, lock_time, version>>

(***************************************************************************)
(* What the properties below read off the state.                           *)
(***************************************************************************)
\* the last call was a build call that returned a transaction
Returned == result.op # "none" /\ result.ret.ok

\* the transaction the last build call returned
ReturnedTx ==
    IF result.op = "build_signed" THEN result.ret.val.tx ELSE result.ret.val

RECURSIVE SumValues(_, _)
\* sum of the values of the transaction outputs outs[i..]
SumValues(outs, i) ==
    IF i > Len(outs) THEN 0 ELSE outs[i].value + SumValues(outs, i + 1)

\* sum of the amounts of the UTXOs the last build call selected
SelectedTotal == SumAmounts(result.selected.val)

\* the payment total: the amounts of the targets not flagged as change
PaymentTotal == SumAmounts(NonChange(outputs))

\* the fee the builder derives from the draft built on the selected UTXOs
\* and the builder's targets
DraftFee ==
    CeilMul(VSize(create_unsigned_tx(Self, result.selected.val, outputs)),
            config.fee_rate)

\* the transaction output a target becomes
TxOutOf(target) ==
    [value |-> target.amount, script_pubkey |-> script_pubkey(target.address)]

\* the transaction outputs of the builder's targets, in order
TargetOutputs == [i \in 1 .. Len(outputs) |-> TxOutOf(outputs[i])]

\* number of outputs of the returned transaction that come from a target
\* flagged as change: the flagged targets of the builder, and the one
\* build_unsigned appended
ChangeOutputs ==
    Len(SelectSeq(outputs, LAMBDA o : o.is_change))
    + (Len(ReturnedTx.output) - Len(outputs))

\* some subset of the available UTXOs, not the empty one, sums exactly to t
ExactSubsetExists(t) ==
    \E S \in (SUBSET (1 .. Len(utxos))) \ {{}} :
        SumAmounts(PoolList([i \in 1 .. Len(utxos) |-> utxos[i].amount], S, 1)) = t

(***************************************************************************)
(* C1..C10                                                                 *)
(***************************************************************************)
\* C1: for every transaction build_unsigned returns, the selected input
\* amounts equal the output values plus a fee that is not negative, and no
\* output value is negative.
C1_InputsEqualOutputsPlusFee ==
    (result.op = "build_unsigned" /\ result.ret.ok) =>
        LET fee == SelectedTotal - SumValues(ReturnedTx.output, 1)
        IN /\ SelectedTotal = SumValues(ReturnedTx.output, 1) + fee
           /\ fee >= 0
           /\ \A i \in 1 .. Len(ReturnedTx.output) : ReturnedTx.output[i].value >= 0

\* C2: when total_input - total_output - fee is below min_change, the
\* returned transaction has exactly the requested targets as outputs, none of
\* them a change output, and inputs minus outputs is the computed fee plus the
\* surplus.
C2_ChangeOmission ==
    (/\ result.op = "build_unsigned"
     /\ result.ret.ok
     /\ SelectedTotal - PaymentTotal - DraftFee < config.min_change) =>
        /\ ReturnedTx.output = TargetOutputs
        /\ ChangeOutputs = 0
        /\ SelectedTotal - SumValues(ReturnedTx.output, 1)
              = DraftFee + (SelectedTotal - PaymentTotal - DraftFee)

\* C3: when the change is at least min_change and a change address is set,
\* the returned transaction has the requested targets followed by one output
\* paying the change to the change address; and no returned transaction
\* holds more than one change output.
C3_ChangeInclusion ==
    (result.op = "build_unsigned" /\ result.ret.ok) =>
        /\ (/\ SelectedTotal - PaymentTotal - DraftFee >= config.min_change
            /\ change_address.some) =>
               ReturnedTx.output =
                   Append(TargetOutputs,
                          [value |-> SelectedTotal - PaymentTotal - DraftFee,
                           script_pubkey |-> script_pubkey(change_address.val)])
        /\ ChangeOutputs <= 1

\* C4: under BranchAndBound, when some subset of the available UTXOs sums
\* exactly to the target, the selection succeeds with a subset that sums
\* exactly to the target.
C4_ExactMatchFound ==
    (/\ result.op = "build_unsigned"
     /\ config.coin_selection = "BranchAndBound"
     /\ outputs # <<>>
     /\ ExactSubsetExists(ExactTarget(Self))) =>
        /\ result.selected.some
        /\ SelectedTotal = ExactTarget(Self)

\* the exact-match search of the builder finds nothing
NoExactMatch == ~find_exact_match(sort_by_key(utxos, TRUE), ExactTarget(Self)).some

\* C5: under BranchAndBound, when the exact-match search finds no subset,
\* the selection is the one LargestFirst makes on the same builder: the same
\* UTXOs in the same order and the same signing inputs, or the same failure.
C5_FallbackIsLargestFirst ==
    (/\ result.op # "none"
     /\ config.coin_selection = "BranchAndBound"
     /\ outputs # <<>>
     /\ NoExactMatch) =>
        LET lf == select_utxos_largest_first(Self)
        IN /\ result.selected = (IF lf.ret.ok THEN Some(lf.ret.val) ELSE None)
           /\ inputs = lf.inputs
           /\ ~lf.ret.ok => result.ret = lf.ret

\* C5 witness: a fallback that selected two UTXOs or more
C5_Witness ==
    /\ result.op = "build_unsigned"
    /\ config.coin_selection = "BranchAndBound"
    /\ outputs # <<>>
    /\ NoExactMatch
    /\ result.selected.some
    /\ Len(result.selected.val) >= 2
    /\ result.ret.ok

\* C6: with a deterministic strategy and shuffling disabled, a second
\* build_unsigned on the untouched builder returns what the first returned:
\* the same transaction or the same error.
C6_Idempotent ==
    (/\ result.op = "build_unsigned"
     /\ prev.some
     /\ config.coin_selection # "Random"
     /\ ~config.shuffle_inputs
     /\ ~config.shuffle_outputs) =>
        result.ret = prev.val

\* C6 witness: a second build_unsigned that returned a transaction with a
\* change output, on a builder whose lock time and version were set
C6_Witness ==
    /\ result.op = "build_unsigned"
    /\ prev.some
    /\ config.coin_selection # "Random"
    /\ ~config.shuffle_inputs
    /\ result.ret.ok
    /\ Len(result.ret.val.output) > Len(outputs)
    /\ result.ret.val.lock_time = 500
    /\ result.ret.val.version = 1

\* C7: when the available UTXOs sum to less than the payment targets (the
\* targets not flagged as change), build_unsigned fails with
\* InsufficientFunds under every strategy.
C7_InsufficientFunds ==
    (result.op = "build_unsigned" /\ SumAmounts(utxos) < PaymentTotal) =>
        result.ret = Err("InsufficientFunds")

\* C7 witness: a failed build with fewer funds than payments, some UTXO
\* being available
C7_Witness ==
    /\ result.op = "build_unsigned"
    /\ utxos # <<>>
    /\ SumAmounts(utxos) < PaymentTotal
    /\ result.ret = Err("InsufficientFunds")

\* C8: when the selection succeeded and the selected total is below the
\* payment total plus the fee of the draft, build_unsigned fails with
\* InsufficientFunds; a change amount is only ever computed from a surplus
\* that is not negative.
C8_PostFeeShortfall ==
    (result.op = "build_unsigned" /\ result.selected.some) =>
        /\ SelectedTotal < PaymentTotal + DraftFee =>
              result.ret = Err("InsufficientFunds")
        /\ result.change_amount.some =>
              /\ result.change_amount.val >= 0
              /\ result.change_amount.val = SelectedTotal - PaymentTotal - DraftFee

\* C8 witness: a greedy selection that covered the payments and its own fee
\* estimate, but not the fee of the draft
C8_Witness ==
    /\ result.op = "build_unsigned"
    /\ config.coin_selection = "LargestFirst"
    /\ result.selected.some
    /\ SelectedTotal >= PaymentTotal
    /\ SelectedTotal < PaymentTotal + DraftFee
    /\ result.ret = Err("InsufficientFunds")

\* C9: for every transaction a build call returns, unsigned or signed, the
\* fee paid (inputs minus outputs) is at least ceil(vsize * fee_rate) for the
\* vsize of that returned transaction.
C9_FeeCoversFinalSize ==
    Returned =>
        SelectedTotal - SumValues(ReturnedTx.output, 1)
            >= CeilMul(VSize(ReturnedTx), config.fee_rate)

\* C10: after a successful selection the signing-input list of the builder
\* is one-to-one with the selected UTXOs, in order, and build_signed hands
\* the signing callback each input's own locking script and amount.
C10_SigningInputsMatch ==
    (result.op # "none" /\ result.selected.some) =>
        /\ Len(inputs) = Len(result.selected.val)
        /\ \A i \in 1 .. Len(result.selected.val) :
              /\ i <= Len(inputs)
              /\ inputs[i] = SigningInput_new(result.selected.val[i].txid,
                                              result.selected.val[i].vout,
                                              result.selected.val[i].amount,
                                              result.selected.val[i].script_pubkey)
        /\ \A i \in 1 .. Len(result.calls) :
              /\ result.calls[i].script = result.selected.val[i].script_pubkey
              /\ result.calls[i].amount = result.selected.val[i].amount

(***************************************************************************)
(* C11..C20                                                                *)
(***************************************************************************)
\* input i of tx holds at least one signature element in its witness
HasSignature(tx, i) ==
    \E k \in 1 .. Len(tx.input[i].witness) : tx.input[i].witness[k].kind = "sig"

\* C11: in a result of build_signed, is_complete is true exactly when every
\* input received at least one signature element from the signing callback.
C11_IsCompleteReflectsSigning ==
    (result.op = "build_signed" /\ result.ret.ok) =>
        (result.ret.val.is_complete <=>
            \A i \in 1 .. Len(ReturnedTx.input) : HasSignature(ReturnedTx, i))

\* C12: build_signed never fails on the fee subtraction, and the fee of a
\* signed result is the amounts of the UTXOs its inputs spend minus its
\* output values.
C12_RealizedFee ==
    (result.op = "build_signed") =>
        /\ result.ret # Err("panic: Amount subtraction error")
        /\ result.ret.ok =>
              result.ret.val.fee = SelectedTotal - SumValues(ReturnedTx.output, 1)

\* what the signing callback answers to the k-th call build_signed made
CallAnswer(k) ==
    signer_call(result.signer, result.calls[k].script, result.calls[k].amount,
                result.calls[k].sighash)

\* C13: when the signing callback returns an error for an input,
\* build_signed returns that error and no transaction, and that call is the
\* last one made: no later input is offered and no input is offered twice.
C13_SigningFailureTerminal ==
    (result.op = "build_signed") =>
        /\ \A k \in 1 .. Len(result.calls) :
              /\ result.calls[k].sighash.index = k
              /\ ~CallAnswer(k).ok =>
                    /\ k = Len(result.calls)
                    /\ result.ret = Err(CallAnswer(k).err)
        /\ result.selected.some => Len(result.calls) <= Len(result.selected.val)

\* C13 witness: the callback refused the first of two inputs
C13_Witness ==
    /\ result.op = "build_signed"
    /\ result.selected.some
    /\ Len(result.selected.val) = 2
    /\ Len(result.calls) = 1
    /\ ~CallAnswer(1).ok
    /\ result.ret = Err("SigningFailed")

\* C14: build_unsigned on a builder that holds no target fails with the
\* no-outputs error whatever the available UTXOs, before any selection: no
\* UTXO is selected and no signing input stored.
C14_NoOutputs ==
    (result.op = "build_unsigned" /\ outputs = <<>>) =>
        /\ result.ret = Err("No outputs specified")
        /\ ~result.selected.some
        /\ inputs = <<>>

\* C14 witness: a build without targets on a builder that holds UTXOs
C14_Witness ==
    /\ result.op = "build_unsigned"
    /\ outputs = <<>>
    /\ Len(utxos) >= 2
    /\ result.ret = Err("No outputs specified")

\* the surplus of the last build: selected total minus payments and fee
Surplus == SelectedTotal - PaymentTotal - DraftFee

\* C15: without a change address, a build whose surplus reaches min_change
\* fails with the missing-change-address error and returns no transaction,
\* and a build whose surplus is below min_change succeeds.
C15_MissingChangeAddress ==
    (/\ result.op = "build_unsigned"
     /\ result.selected.some
     /\ ~change_address.some
     /\ Surplus >= 0) =>
        /\ Surplus >= config.min_change =>
              result.ret = Err("Change address not specified")
        /\ Surplus < config.min_change => result.ret.ok

\* C15 witness: change owed, no change address, the build failed
C15_Witness ==
    /\ result.op = "build_unsigned"
    /\ result.selected.some
    /\ ~change_address.some
    /\ Surplus >= config.min_change
    /\ ~result.ret.ok

\* the least q with q * b >= a: ceil(a / b)
CeilDiv(a, b) == CHOOSE q \in 0 .. a : q * b >= a /\ (q = 0 \/ (q - 1) * b < a)

\* the draft build_unsigned computes the fee on
Draft == create_unsigned_tx(Self, result.selected.val, outputs)

\* C16: the fee build_unsigned derives is ceil(vsize * fee_rate) with
\* vsize = ceil(weight / 4) of the draft, and the vsize of a signed result is
\* ceil(weight / 4) of the signed transaction.
C16_FeeFormula ==
    /\ (result.op # "none" /\ result.selected.some) =>
          result.fee = CeilDiv(CeilDiv(Weight(Draft), 4) * config.fee_rate.n,
                               config.fee_rate.d)
    /\ (result.op = "build_signed" /\ result.ret.ok) =>
          /\ result.ret.val.weight = Weight(ReturnedTx)
          /\ result.ret.val.vsize = CeilDiv(result.ret.val.weight, 4)

\* C16 witness: a signed result whose weight is no multiple of 4, its fee
\* rounded up from a fractional product
C16_Witness ==
    /\ result.op = "build_signed"
    /\ result.ret.ok
    /\ result.ret.val.weight % 4 # 0
    /\ (VSize(Draft) * config.fee_rate.n) % config.fee_rate.d # 0

\* C17: when build_unsigned adds a change output, the fee the returned
\* transaction pays is ceil(vsize * fee_rate) for the vsize of the returned
\* transaction, change output included.
C17_FeeRecomputedWithChange ==
    (/\ result.op = "build_unsigned"
     /\ result.ret.ok
     /\ Len(ReturnedTx.output) > Len(outputs)) =>
        SelectedTotal - SumValues(ReturnedTx.output, 1)
            = CeilMul(VSize(ReturnedTx), config.fee_rate)

\* C18: parse_address and create_transaction return an error and no
\* transaction for an address of another network than the one asked for, and
\* no transaction a build call returns pays, as target or as change, to an
\* address of another network than the configured one.
C18_AddressNetwork ==
    /\ (result.op = "parse_address" /\ result.text.valid
           /\ result.text.address.network # result.network) => ~result.ret.ok
    /\ (/\ result.op = "create_transaction"
         /\ \E i \in 1 .. Len(result.request.outputs) :
               /\ result.request.outputs[i].address.valid
               /\ result.request.outputs[i].address.address.network
                      # result.network) => ~result.ret.ok
    /\ (result.op \in {"build_unsigned", "build_signed"} /\ result.ret.ok) =>
          /\ \A i \in 1 .. Len(outputs) :
                outputs[i].address.network = config.network
          /\ Len(ReturnedTx.output) > Len(outputs) =>
                change_address.val.network = config.network

\* C19: a step that runs coin selection (a build call) leaves the builder as
\* it was: configuration, available UTXOs, targets, change address and the
\* stored signing inputs.
C19_SelectionPure ==
    [][result'.op \in {"build_unsigned", "build_signed"} =>
          /\ config' = config
          /\ utxos' = utxos
          /\ outputs' = outputs
          /\ change_address' = change_address
          /\ inputs' = inputs]_vars

\* two transactions of the caller's record spend a common output
Overlap(j, k) == picked[j].outpoints \cap picked[k].outpoints # {}

\* C20: when the caller removed the outputs of every transaction from the
\* pool before the next build, no output is spent by two transactions; when
\* it removed nothing, the builder having reserved nothing, two transactions
\* built under SmallestFirst or LargestFirst spend a common output.
C20_SharedPool ==
    /\ (\A k \in 1 .. Len(picked) : picked[k].removed) =>
          \A j, k \in 1 .. Len(picked) : j < k => ~Overlap(j, k)
    /\ (/\ config.coin_selection \in {"SmallestFirst", "LargestFirst"}
         /\ \A k \in 1 .. Len(picked) : ~picked[k].removed) =>
          \A j, k \in 1 .. Len(picked) : j < k => Overlap(j, k)

\* C20 witness: two transactions built over the same pool, nothing removed
\* in between, spend the same output
C20_Witness ==
    /\ Len(picked) = 2
    /\ ~picked[1].removed
    /\ Overlap(1, 2)

(***************************************************************************)
(* C21..C30                                                                *)
(***************************************************************************)
\* build_unsigned returned a transaction with a change output of its own
ChangeAdded ==
    /\ result.op = "build_unsigned"
    /\ result.ret.ok
    /\ Len(ReturnedTx.output) > Len(outputs)

\* C21: no transaction build_unsigned returns holds a change output below
\* the configured dust_limit, whatever dust_limit and min_change are.
C21_NoDustChange ==
    ChangeAdded =>
        ReturnedTx.output[Len(ReturnedTx.output)].value >= config.dust_limit

\* the available UTXOs cover the payments plus the fee of the largest
\* transaction the builder could return: every UTXO spent, a change output
\* added
FundsCover ==
    SumAmounts(utxos) >=
        PaymentTotal
        + CeilMul(VSize(create_unsigned_tx(Self, utxos,
                      Append(outputs,
                             OutputTarget_new_change(change_address.val, 0)))),
                  config.fee_rate)

\* C22: under the default configuration, with targets, a change address and
\* UTXOs that cover the payments plus the fee, build_unsigned succeeds and so
\* does build_signed with a callback that signs every input.
C22_HappyPath ==
    (/\ config = DefaultConfig
     /\ outputs # <<>>
     /\ change_address.some
     /\ FundsCover
     /\ \/ result.op = "build_unsigned"
        \/ result.op = "build_signed" /\ result.signer = "sign") =>
        result.ret.ok

\* sel is the shortest prefix of the list p whose total reaches t
ShortestPrefix(sel, p, t) ==
    /\ Len(sel) <= Len(p)
    /\ sel = SubSeq(p, 1, Len(sel))
    /\ SumAmounts(sel) >= t
    /\ sel # <<>> => SumAmounts(SubSeq(sel, 1, Len(sel) - 1)) < t

\* p is in ascending (descending, when reverse) order of amount
Ordered(p, reverse) ==
    \A i, j \in 1 .. Len(p) :
        i < j => IF reverse THEN p[i].amount >= p[j].amount
                 ELSE p[i].amount <= p[j].amount

\* C23: a successful selection under SmallestFirst (LargestFirst) is the
\* shortest prefix of the available UTXOs in ascending (descending) order of
\* amount whose total reaches the threshold of the selection; under Random
\* it is such a prefix of a permutation of the available UTXOs.
C23_GreedyPrefix ==
    (/\ result.op = "build_unsigned"
     /\ result.selected.some
     /\ config.coin_selection # "BranchAndBound") =>
        \E p \in Shuffles(utxos) :
            /\ ShortestPrefix(result.selected.val, p, MinAmount(Self))
            /\ config.coin_selection = "SmallestFirst" => Ordered(p, FALSE)
            /\ config.coin_selection = "LargestFirst" => Ordered(p, TRUE)

\* C23 witness: LargestFirst selected two UTXOs out of three
C23_Witness ==
    /\ result.op = "build_unsigned"
    /\ result.ret.ok
    /\ config.coin_selection = "LargestFirst"
    /\ Len(utxos) = 3
    /\ Len(result.selected.val) = 2

\* C24: the threshold of the greedy selection is the payments (the targets
\* not flagged as change) plus (base + per-input * k + per-output * number
\* of targets) times the fractional fee rate, for some anticipated number k
\* of inputs, rounded either way.
C24_FundingTarget ==
    (result.op = "build_unsigned" /\ outputs # <<>> /\ utxos # <<>>) =>
        \E k \in 0 .. Len(utxos) :
            LET bytes == 10 + 150 * k + 34 * Len(outputs)
            IN MinAmount(Self) - PaymentTotal
                  \in {CeilMul(bytes, config.fee_rate),
                       (bytes * config.fee_rate.n) \div config.fee_rate.d}

\* C25: every input of a transaction build_unsigned returns has an empty
\* script_sig and an empty witness and spends the outpoint (txid, vout) of
\* the selected UTXO at its position.
C25_UnsignedPlaceholder ==
    (result.op = "build_unsigned" /\ result.ret.ok) =>
        /\ Len(ReturnedTx.input) = Len(result.selected.val)
        /\ \A i \in 1 .. Len(ReturnedTx.input) :
              /\ ReturnedTx.input[i].script_sig = <<>>
              /\ ReturnedTx.input[i].witness = <<>>
              /\ ReturnedTx.input[i].previous_output.txid
                    = result.selected.val[i].txid
              /\ ReturnedTx.input[i].previous_output.vout
                    = result.selected.val[i].vout

\* C25 witness: an unsigned transaction of two inputs, the first of which
\* spends output 1 of its transaction
C25_Witness ==
    /\ result.op = "build_unsigned"
    /\ result.ret.ok
    /\ Len(ReturnedTx.input) = 2
    /\ result.selected.val[1].vout = 1

\* C26: every input of a transaction build_unsigned returns carries the
\* configured rbf_sequence when rbf is enabled and 0xFFFFFFFF when it is not.
C26_RbfSequence ==
    (result.op = "build_unsigned" /\ result.ret.ok) =>
        \A i \in 1 .. Len(ReturnedTx.input) :
            ReturnedTx.input[i].sequence =
                (IF config.rbf THEN config.rbf_sequence ELSE "0xFFFFFFFF")

\* C26 witness: an unsigned transaction of two inputs built with rbf enabled
C26_Witness ==
    /\ result.op = "build_unsigned"
    /\ result.ret.ok
    /\ config.rbf
    /\ Len(ReturnedTx.input) = 2

C28_OutputsWithinInputs ==
    (result.op = "build_unsigned" /\ result.ret.ok) =>
        SumValues(ReturnedTx.output, 1) <= SelectedTotal

\* the selected UTXOs are drawn from the available ones, none of them twice:
\* each is in self.utxos, and no two positions hold the same outpoint
DrawnOnce(selected, available) ==
    /\ \A i \in 1 .. Len(selected) :
          \E j \in 1 .. Len(available) : available[j] = selected[i]
    /\ \A i, k \in 1 .. Len(selected) :
          (selected[i].txid = selected[k].txid
             /\ selected[i].vout = selected[k].vout) => i = k

\* C29: under every strategy the selected inputs are drawn from the
\* available UTXOs, each at most once in a build, and no UTXO whose
\* spendable flag is false is selected; stated of the builds that return a
\* transaction.
C29_SelectedSpendable ==
    (Returned /\ result.selected.some) =>
        /\ DrawnOnce(result.selected.val, utxos)
        /\ \A i \in 1 .. Len(result.selected.val) :
              result.selected.val[i].spendable

\* tx is the unsigned transaction u but for the witnesses of its inputs
SameButWitness(tx, u) ==
    /\ tx.version = u.version
    /\ tx.lock_time = u.lock_time
    /\ tx.output = u.output
    /\ Len(tx.input) = Len(u.input)
    /\ \A i \in 1 .. Len(u.input) :
          /\ tx.input[i].previous_output = u.input[i].previous_output
          /\ tx.input[i].sequence = u.input[i].sequence
          /\ tx.input[i].script_sig = u.input[i].script_sig

\* C30: the transaction in a result of build_signed is the transaction
\* build_unsigned returns on the same builder (for the same selection) but
\* for the witnesses: same inputs in the same order, same outputs, version
\* and lock time; the witness of each input is the elements the signing
\* callback returned for it, in order, followed by the script it returned.
C30_SigningOnlyWitness ==
    (result.op = "build_signed" /\ result.ret.ok) =>
        /\ \E shuffled \in ShuffleChoices :
              /\ build_unsigned(Self, shuffled).ret.ok
              /\ build_unsigned(Self, shuffled).selected = result.selected
              /\ SameButWitness(ReturnedTx, build_unsigned(Self, shuffled).ret.val)
        /\ Len(result.calls) = Len(ReturnedTx.input)
        /\ \A i \in 1 .. Len(ReturnedTx.input) :
              /\ CallAnswer(i).ok
              /\ ReturnedTx.input[i].witness =
                    CallAnswer(i).val.signatures
                        \o <<into_bytes(CallAnswer(i).val.script)>>

\* C30 witness: a signed transaction of two inputs and a change output, each
\* input holding a signature, on a builder whose lock time and version
\* were set
C30_Witness ==
    /\ result.op = "build_signed"
    /\ result.ret.ok
    /\ result.signer = "sign"
    /\ Len(ReturnedTx.input) = 2
    /\ Len(ReturnedTx.output) > Len(outputs)
    /\ ReturnedTx.lock_time = 500
    /\ ReturnedTx.version = 1

(***************************************************************************)
(* Specifications.                                                         *)
(***************************************************************************)
\* the configurations that differ from the default in the strategy only
\* (and in the shuffle flags)
StrategyConfigs ==
    {c \in Configs : /\ c.fee_rate = DefaultConfig.fee_rate
                     /\ c.min_change = DefaultConfig.min_change}

\* Spec: every method of the builder, over the strategies
Init == InitWith(StrategyConfigs \cup {DefaultConfig}, UtxoListsOf(PoolAmounts))

Next ==
    \/ AddOutput
    \/ AddOutputs
    \/ SetChangeAddress
    \/ SetLockTime
    \/ SetVersion
    \/ BuildUnsigned
    \/ BuildSigned

Spec == Init /\ [][Next]_vars

\* SpecBuild: targets, change address and the two build calls, over every
\* strategy, fee rate and min_change
InitBuild == InitWith(Configs \cup {DefaultConfig}, UtxoListsOf(PoolAmounts))

NextBuild ==
    \/ AddOutput
    \/ AddOutputs
    \/ SetChangeAddress
    \/ BuildUnsigned
    \/ BuildSigned

SpecBuild == InitBuild /\ [][NextBuild]_vars

\* SpecPay: as SpecBuild, with payment targets only (add_outputs, which
\* alone can add a target flagged as change, is left out)
NextPay ==
    \/ AddOutput
    \/ SetChangeAddress
    \/ BuildUnsigned
    \/ BuildSigned

SpecPay == InitBuild /\ [][NextPay]_vars

\* SpecExact: BranchAndBound over the pool of four, payment targets only
InitExact ==
    InitWith({c \in Configs : c.coin_selection = "BranchAndBound"},
             UtxoListsOf(WidePoolAmounts))

NextExact ==
    \/ AddOutput
    \/ BuildUnsigned

SpecExact == InitExact /\ [][NextExact]_vars

\* SpecRebuild: a BranchAndBound builder that is built, given more targets
\* and built again
InitRebuild ==
    InitWith({c \in Configs : c.coin_selection = "BranchAndBound"},
             UtxoListsOf(PoolAmounts))

NextRebuild ==
    \/ AddOutput
    \/ AddSmallOutput
    \/ BuildUnsigned
    \/ BuildSigned

SpecRebuild == InitRebuild /\ [][NextRebuild]_vars

\* SpecDust: as SpecPay, under configurations whose dust_limit is above
\* some min_change
DustConfigs == {[c EXCEPT !.dust_limit = 2 * DefaultConfig.dust_limit] : c \in Configs}

InitDust == InitWith(DustConfigs, UtxoListsOf(PoolAmounts))

SpecDust == InitDust /\ [][NextPay]_vars

\* SpecRbf: as SpecPay, at fee rate 0, with rbf enabled or not and two values
\* of rbf_sequence
RbfConfigs ==
    {[c EXCEPT !.rbf = r, !.rbf_sequence = q] :
        c \in {d \in StrategyConfigs \cup Configs :
                  d.fee_rate.n = 0 /\ d.min_change = DefaultConfig.min_change},
        r \in BOOLEAN, q \in {"0xFFFFFFFD", "0x00000001"}}

InitRbf == InitWith(RbfConfigs, UtxoListsOf(PoolAmounts))

SpecRbf == InitRbf /\ [][NextPay]_vars

\* SpecSpendable: as SpecPay, one configuration for each strategy, the
\* caller flagging any of the UTXOs it hands over as not spendable
FlaggedLists ==
    {[i \in 1 .. Len(u) |-> [u[i] EXCEPT !.spendable = (i \notin S)]] :
        u \in UtxoListsOf(PoolAmounts), S \in SUBSET (1 .. Len(PoolAmounts))}

InitSpendable == InitWith(StrategyConfigs, FlaggedLists)

SpecSpendable == InitSpendable /\ [][NextPay]_vars

\* SpecPool: a caller that builds up to MaxBuilds transactions over its pool
NextPool ==
    \/ AddOutput
    \/ AddSmallOutput
    \/ SetChangeAddress
    \/ PoolBuild
    \/ PoolBuildRemoving

SpecPool == InitBuild /\ [][NextPool]_vars

\* SpecNetwork: addresses of two networks, parsed, handed to the create_tx
\* script and handed to a builder with the default configuration
InitNetwork == InitWith({DefaultConfig}, UtxoListsOf(PoolAmounts))

NextNetwork ==
    \/ ParseAddress
    \/ CreateTransaction
    \/ AddOutput
    \/ AddForeignOutput
    \/ SetChangeAddress
    \/ SetForeignChangeAddress
    \/ BuildUnsigned

SpecNetwork == InitNetwork /\ [][NextNetwork]_vars
====
